---- MODULE Spec2Model ----
(***************************************************************************)
(* OctoEB: the GitHub release workflow script (src/octoeb.py) and the      *)
(* version/ticket formatting helpers (src/octoeb/utils/formatting.py).     *)
(*                                                                         *)
(* Strings are sequences of one-character strings.  The remote repository  *)
(* is the pair (branches, releases); every remote call of an invocation is *)
(* one atomic step, and what the code keeps in local variables between     *)
(* two calls is kept in the invocation's record.                           *)
(***************************************************************************)
EXTENDS Naturals, Sequences, FiniteSets

VARIABLES branches, releases, env, proc

vars == <<branches, releases, env, proc>>

(***************************************************************************)
(* Bounds of the model.                                                    *)
(***************************************************************************)
\* Invocations of `qa` and `release` start only while the remote holds fewer
\* releases than this.
MaxReleases == 2

\* The longest string handed to the pure helpers on their own.
MaxInputLen == 9

(***************************************************************************)
(* String literals.                                                        *)
(***************************************************************************)
Digits == {"0", "1", "2", "3", "4", "5", "6", "7", "8", "9"}

S_master == <<"m", "a", "s", "t", "e", "r">>
S_develop == <<"d", "e", "v", "e", "l", "o", "p">>
S_release_ == <<"r", "e", "l", "e", "a", "s", "e", "-">>
S_hotfix_ == <<"h", "o", "t", "f", "i", "x", "-">>
\* What '{}'.format(None) puts into a path.
S_None == <<"N", "o", "n", "e">>

\* "17.11.01.00"
V_17_11_01_00 == <<"1", "7", ".", "1", "1", ".", "0", "1", ".", "0", "0">>
\* "17.11.01.05"
V_17_11_01_05 == <<"1", "7", ".", "1", "1", ".", "0", "1", ".", "0", "5">>
\* "17.11.01.00.05"
V_17_11_01_00_05 == V_17_11_01_00 \o <<".", "0", "5">>
\* "1.0.0"
V_1_0_0 == <<"1", ".", "0", ".", "0">>
\* "EB-1"
T_EB_1 == <<"E", "B", "-", "1">>
\* "EB-1-1.2.3.4.5"
T_EB_1_dotted == T_EB_1 \o <<"-", "1", ".", "2", ".", "3", ".", "4", ".", "5">>
\* "123"
T_123 == <<"1", "2", "3">>

(***************************************************************************)
(* str.split('.') and '.'.join(...)                                        *)
(***************************************************************************)
HasDot(s) == \E i \in 1..Len(s) : s[i] = "."

FirstDot(s) == CHOOSE i \in 1..Len(s) : s[i] = "." /\ \A j \in 1..(i - 1) : s[j] # "."

RECURSIVE SplitDot(_)
SplitDot(s) ==
    IF ~HasDot(s) THEN <<s>>
    ELSE <<SubSeq(s, 1, FirstDot(s) - 1)>> \o SplitDot(SubSeq(s, FirstDot(s) + 1, Len(s)))

RECURSIVE JoinDot(_)
JoinDot(parts) ==
    IF Len(parts) = 0 THEN <<>>
    ELSE IF Len(parts) = 1 THEN parts[1]
    ELSE parts[1] \o <<".">> \o JoinDot(Tail(parts))

\* parts[:n]
Take(parts, n) == SubSeq(parts, 1, IF Len(parts) < n THEN Len(parts) ELSE n)

(***************************************************************************)
(* src/octoeb.py: the pure helpers.                                        *)
(***************************************************************************)
\* '$' matches at the end and before a final newline.
AtEnd(s, i) == i = Len(s) + 1 \/ (i = Len(s) /\ s[i] = "\n")

\* s[i..j] is one repetition of (?:\.?\d+)
LegacyGroup(s, i, j) ==
    /\ i <= j
    /\ \A k \in (i + 1)..j : s[k] \in Digits
    /\ \/ s[i] \in Digits
       \/ s[i] = "." /\ i < j

\* s[i..] is exactly n repetitions of (?:\.?\d+) followed by '$'
RECURSIVE LegacyGroups(_, _, _)
LegacyGroups(s, i, n) ==
    IF n = 0 THEN AtEnd(s, i)
    ELSE \E j \in i..Len(s) : LegacyGroup(s, i, j) /\ LegacyGroups(s, j + 1, n - 1)

\* re.match(r'^(?:\.?\d+){4,5}$', version)
LegacyMatch(s) == LegacyGroups(s, 1, 4) \/ LegacyGroups(s, 1, 5)

\* TRUE: returns True; FALSE: raises Exception('Invalid version number ...')
validate_version(version) == LegacyMatch(version)

\* The major version cut after three components.
extract_major_version_3(version) == JoinDot(Take(SplitDot(version), 3))

\* '.'.join(version.split('.')[:4])
extract_major_version(version) == JoinDot(Take(SplitDot(version), 4))

\* re.match(r'^EB-\d+(?:-.+)?$', name); '.' matches anything but a newline.
TicketMatch(s) ==
    /\ Len(s) >= 4
    /\ s[1] = "E" /\ s[2] = "B" /\ s[3] = "-"
    /\ \E d \in 4..Len(s) :
          /\ \A k \in 4..d : s[k] \in Digits
          /\ \/ AtEnd(s, d + 1)
             \/ /\ d + 2 <= Len(s)
                /\ s[d + 1] = "-"
                /\ \E e \in (d + 2)..Len(s) :
                      /\ \A k \in (d + 2)..e : s[k] # "\n"
                      /\ AtEnd(s, e + 1)

validate_ticket_name(name) == TicketMatch(name)

(***************************************************************************)
(* src/octoeb/utils/formatting.py                                          *)
(***************************************************************************)
Letters == {"a", "b", "c", "d", "e", "f", "g", "h", "i", "j", "k", "l", "m",
            "n", "o", "p", "q", "r", "s", "t", "u", "v", "w", "x", "y", "z",
            "A", "B", "C", "D", "E", "F", "G", "H", "I", "J", "K", "L", "M",
            "N", "O", "P", "Q", "R", "S", "T", "U", "V", "W", "X", "Y", "Z"}

\* [0-9a-zA-Z-]
IdChars == Digits \cup Letters \cup {"-"}

\* (0|[1-9]\d*)
SemverNumber(t) ==
    /\ Len(t) >= 1
    /\ \A k \in 1..Len(t) : t[k] \in Digits
    /\ t[1] = "0" => Len(t) = 1

\* (0|[1-9]\d*|\d*[a-zA-Z-][0-9a-zA-Z-]*)
SemverPreId(t) ==
    \/ SemverNumber(t)
    \/ \E k \in 1..Len(t) :
          /\ \A j \in 1..(k - 1) : t[j] \in Digits
          /\ t[k] \in Letters \cup {"-"}
          /\ \A j \in (k + 1)..Len(t) : t[j] \in IdChars

\* [0-9a-zA-Z-]+
SemverBuildId(t) == Len(t) >= 1 /\ \A k \in 1..Len(t) : t[k] \in IdChars

\* (0|[1-9]\d*)\.(0|[1-9]\d*)\.(0|[1-9]\d*)
SemverCore(t) ==
    /\ Len(SplitDot(t)) = 3
    /\ \A k \in 1..3 : SemverNumber(SplitDot(t)[k])

\* the identifiers after '-', separated by dots
SemverPre(t) == \A k \in 1..Len(SplitDot(t)) : SemverPreId(SplitDot(t)[k])

\* the identifiers after '+', separated by dots
SemverBuild(t) == \A k \in 1..Len(SplitDot(t)) : SemverBuildId(SplitDot(t)[k])

\* s[1..n] is core, optional '-' pre, optional '+' build
SemverBody(s, n) ==
    \E i \in 0..n : \E j \in i..n :
       /\ SemverCore(SubSeq(s, 1, i))
       /\ \/ i = j
          \/ j >= i + 1 /\ s[i + 1] = "-" /\ SemverPre(SubSeq(s, i + 2, j))
       /\ \/ j = n
          \/ n >= j + 1 /\ s[j + 1] = "+" /\ SemverBuild(SubSeq(s, j + 2, n))

\* re.match(SEMVER_REGEX, version)
SemverMatch(s) ==
    \/ SemverBody(s, Len(s))
    \/ Len(s) >= 1 /\ s[Len(s)] = "\n" /\ SemverBody(s, Len(s) - 1)

formatting_extract_major_version(version) == JoinDot(Take(SplitDot(version), 4))

formatting_validate_ticket_name(name) == TicketMatch(name)

\* TRUE: returns True; FALSE: raises Exception('Invalid version number ...')
formatting_validate_version(version) == LegacyMatch(version) \/ SemverMatch(version)

(***************************************************************************)
(* The remote repository, as the GitHub API answers for it.                *)
(*                                                                         *)
(* A commit SHA stands for the history it names: the set of commits pushed *)
(* on top of the root.  The comparison of two refs follows from the two    *)
(* histories.                                                              *)
(***************************************************************************)
\* "m": a commit pushed to master; "d": a commit pushed to develop.
Commits == {"m", "d"}
NoSha == {"none"}

\* A 201 of a POST.
Created == [status |-> 201, sha |-> NoSha, tag_name |-> S_None, cmp |-> "none"]
\* A 404 carries no body the code reads.
NotFound == [status |-> 404, sha |-> NoSha, tag_name |-> S_None, cmp |-> "none"]
ServerError == [status |-> 500, sha |-> NoSha, tag_name |-> S_None, cmp |-> "none"]
Unprocessable == [status |-> 422, sha |-> NoSha, tag_name |-> S_None, cmp |-> "none"]

\* What the remote may answer to a lookup whose truthful answer is `truth`.
Answers(truth) == {truth} \cup (IF env.flaky THEN {ServerError} ELSE {})

\* GET git/refs/heads/<name>
RemoteBranch(name) ==
    IF name \in DOMAIN branches
    THEN [status |-> 200, sha |-> branches[name], tag_name |-> S_None, cmp |-> "none"]
    ELSE NotFound

HasTag(rs, tag) == \E i \in 1..Len(rs) : rs[i].tag_name = tag

FirstWithTag(rs, tag) == CHOOSE i \in 1..Len(rs) :
    rs[i].tag_name = tag /\ \A j \in 1..(i - 1) : rs[j].tag_name # tag

\* GET releases/tags/<name>
RemoteRelease(tag) ==
    IF HasTag(releases, tag)
    THEN [status |-> 200, sha |-> releases[FirstWithTag(releases, tag)].target_commitish,
          tag_name |-> tag, cmp |-> "none"]
    ELSE NotFound

\* The releases list, most recent first, filtered.
RECURSIVE SelectPre(_, _)
SelectPre(rs, pre) ==
    IF Len(rs) = 0 THEN <<>>
    ELSE IF rs[1].prerelease = pre THEN <<rs[1]>> \o SelectPre(Tail(rs), pre)
    ELSE SelectPre(Tail(rs), pre)

\* GET releases/latest: the most recent release that is neither a draft nor
\* a prerelease.
RemoteLatestRelease ==
    IF Len(SelectPre(releases, FALSE)) = 0 THEN NotFound
    ELSE [status |-> 200, sha |-> SelectPre(releases, FALSE)[1].target_commitish,
          tag_name |-> SelectPre(releases, FALSE)[1].tag_name, cmp |-> "none"]

\* A ref of the compare endpoint: a branch name or a tag name.
RefExists(ref) == ref \in DOMAIN branches \/ HasTag(releases, ref)

RefSha(ref) ==
    IF ref \in DOMAIN branches THEN branches[ref]
    ELSE releases[FirstWithTag(releases, ref)].target_commitish

CompareStatus(b, h) ==
    IF b = h THEN "identical"
    ELSE IF b \subseteq h THEN "ahead"
    ELSE IF h \subseteq b THEN "behind"
    ELSE "diverged"

\* GET compare/<base>...<head>
RemoteCompare(base, head) ==
    IF RefExists(base) /\ RefExists(head)
    THEN [status |-> 200, sha |-> NoSha, tag_name |-> S_None,
          cmp |-> CompareStatus(RefSha(base), RefSha(head))]
    ELSE NotFound

(***************************************************************************)
(* Invocations: one run of the script, from the parsed arguments to exit.  *)
(***************************************************************************)
Procs == {1}

NoName == <<>>
\* Python's None and True, as values no string equals.
PyNone == <<"<None>">>
PyTrue == <<"<True>">>
\* '{}'.format(x)
Format(x) == IF x = PyNone THEN S_None ELSE x

Idle == [op |-> "none", arg |-> NoName, pc |-> "idle", name |-> NoName,
         base_name |-> NoName, sha |-> NoSha, release_base_branch |-> NoName,
         prod_tag |-> NoName, result |-> "none", ret |-> NoName, log |-> <<>>]

\* One remote call, as issued, and the answer it got.
Call(c, a, b, r) == [call |-> c, a |-> a, b |-> b, resp |-> r]

Logged(p, c, a, b, r) == Append(proc[p].log, Call(c, a, b, r))

\* The process exits with `res`, having returned `ret`; its locals are gone.
Exited(p, res, ret, lg) ==
    [Idle EXCEPT !.op = proc[p].op, !.arg = proc[p].arg, !.pc = "done",
                 !.result = res, !.ret = ret, !.log = lg]

\* A new process can be started: the script runs one invocation at a time.
Fresh(p) == proc[p].pc \in {"idle", "done"}

Started(o, a, next) == [Idle EXCEPT !.op = o, !.arg = a, !.pc = next]

Rejected(o, a) == [Idle EXCEPT !.op = o, !.arg = a, !.pc = "done", !.result = "InvalidFormat"]

\* requests.exceptions.HTTPError, as raise_for_status raises it.
HttpError(r) == IF r.status = 404 THEN "HTTP404"
                ELSE IF r.status = 422 THEN "HTTP422" ELSE "HTTP5xx"

(***************************************************************************)
(* The command line handlers up to their first remote call.                *)
(***************************************************************************)
VersionArgs == {V_17_11_01_00, V_17_11_01_05, V_17_11_01_00_05, V_1_0_0}
TicketArgs == {T_EB_1, T_EB_1_dotted, T_123}
MethodArgs == {V_17_11_01_00, V_17_11_01_05, V_17_11_01_00_05}

\* create_release_branch cutting the branch from master, as hotfixes are.
create_release_branch_base_master == S_master

\* create_release_branch: self.create_branch(release_name, 'develop')
create_release_branch_base == S_develop

\* create_hotfix_branch: self.create_branch(fix_name, 'master')
create_hotfix_branch_base == S_master

\* octoeb start release <start_ver>
StartRelease(p, start_ver) ==
    /\ Fresh(p)
    /\ proc' = [proc EXCEPT ![p] =
          IF validate_version(start_ver)
          THEN [Started("start_release", start_ver, "cb_get_branch") EXCEPT
                   !.name = S_release_ \o extract_major_version(start_ver),
                   !.base_name = create_release_branch_base]
          ELSE Rejected("start_release", start_ver)]
    /\ UNCHANGED <<branches, releases, env>>

\* start hotfix going to the remote without validating the ticket.
StartHotfix_Unvalidated(p, start_fix) ==
    /\ Fresh(p)
    /\ proc' = [proc EXCEPT ![p] =
          [Started("start_hotfix", start_fix, "cb_get_branch") EXCEPT
              !.name = S_hotfix_ \o extract_major_version(start_fix),
              !.base_name = create_hotfix_branch_base]]
    /\ UNCHANGED <<branches, releases, env>>

\* octoeb start hotfix <start_fix>
StartHotfix(p, start_fix) ==
    /\ Fresh(p)
    /\ proc' = [proc EXCEPT ![p] =
          IF validate_ticket_name(start_fix)
          THEN [Started("start_hotfix", start_fix, "cb_get_branch") EXCEPT
                   !.name = S_hotfix_ \o extract_major_version(start_fix),
                   !.base_name = create_hotfix_branch_base]
          ELSE Rejected("start_hotfix", start_fix)]
    /\ UNCHANGED <<branches, releases, env>>

\* octoeb qa <qa_ver>
Qa(p, qa_ver) ==
    /\ Fresh(p)
    /\ Len(releases) < MaxReleases
    /\ proc' = [proc EXCEPT ![p] =
          IF validate_version(qa_ver)
          THEN [Started("qa", qa_ver, "pre_get_branch") EXCEPT
                   !.name = S_release_ \o extract_major_version(qa_ver)]
          ELSE Rejected("qa", qa_ver)]
    /\ UNCHANGED <<branches, releases, env>>

\* release looking for the release before comparing the branches.
Release_ExistenceFirst(p, release_ver) ==
    /\ Fresh(p)
    /\ Len(releases) < MaxReleases
    /\ proc' = [proc EXCEPT ![p] =
          IF validate_version(release_ver)
          THEN Started("release", release_ver, "rel_get_release")
          ELSE Rejected("release", release_ver)]
    /\ UNCHANGED <<branches, releases, env>>

\* octoeb release <release_ver>
Release(p, release_ver) ==
    /\ Fresh(p)
    /\ Len(releases) < MaxReleases
    /\ proc' = [proc EXCEPT ![p] =
          IF validate_version(release_ver)
          THEN Started("release", release_ver, "rel_compare")
          ELSE Rejected("release", release_ver)]
    /\ UNCHANGED <<branches, releases, env>>

\* octoeb method check_merge_status <release_name>
MethodCheckMergeStatus(p, release_name) ==
    /\ Fresh(p)
    /\ proc' = [proc EXCEPT ![p] =
          Started("check_merge_status", release_name, "rbn_latest_release")]
    /\ UNCHANGED <<branches, releases, env>>

\* octoeb method release_branch_name <release_name>
MethodReleaseBranchName(p, release_name) ==
    /\ Fresh(p)
    /\ proc' = [proc EXCEPT ![p] =
          Started("release_branch_name", release_name, "rbn_latest_release")]
    /\ UNCHANGED <<branches, releases, env>>

(***************************************************************************)
(* GitHubAPI.create_branch                                                 *)
(***************************************************************************)
\* try: self.get_branch(name) / except HTTPError: pass / else: raise
CreateBranch_GetBranch(p) ==
    /\ proc[p].pc = "cb_get_branch"
    /\ \E r \in Answers(RemoteBranch(proc[p].name)) :
          proc' = [proc EXCEPT ![p] =
             IF r.status = 200
             THEN Exited(p, "AlreadyExists", PyNone, Logged(p, "get_branch", proc[p].name, NoName, r))
             ELSE [@ EXCEPT !.pc = "cb_get_base",
                            !.log = Logged(p, "get_branch", proc[p].name, NoName, r)]]
    /\ UNCHANGED <<branches, releases, env>>

\* base = self.get_branch(base_name); base['object']['sha']
CreateBranch_GetBase(p) ==
    /\ proc[p].pc = "cb_get_base"
    /\ \E r \in Answers(RemoteBranch(proc[p].base_name)) :
          proc' = [proc EXCEPT ![p] =
             IF r.status # 200
             THEN Exited(p, HttpError(r), PyNone, Logged(p, "get_branch", proc[p].base_name, NoName, r))
             ELSE [@ EXCEPT !.pc = "cb_post", !.sha = r.sha,
                            !.log = Logged(p, "get_branch", proc[p].base_name, NoName, r)]]
    /\ UNCHANGED <<branches, releases, env>>

\* POST git/refs: the remote refuses a ref that exists.
RemoteCreateRef(name, sha) ==
    IF name \in DOMAIN branches THEN branches
    ELSE [n \in DOMAIN branches \cup {name} |-> IF n = name THEN sha ELSE branches[n]]

\* resp = self.post('git/refs', json=branch_info); resp.raise_for_status()
CreateBranch_Post(p) ==
    /\ proc[p].pc = "cb_post"
    /\ branches' = RemoteCreateRef(proc[p].name, proc[p].sha)
    /\ proc' = [proc EXCEPT ![p] =
          IF proc[p].name \in DOMAIN branches
          THEN Exited(p, "HTTP422", PyNone,
                      Logged(p, "post_ref", proc[p].name, NoName, Unprocessable))
          ELSE Exited(p, "ok", proc[p].name,
                      Logged(p, "post_ref", proc[p].name, NoName, Created))]
    /\ UNCHANGED <<releases, env>>

(***************************************************************************)
(* POST releases, as the remote handles it.                                *)
(***************************************************************************)
RemoteRefusesRelease(info) == env.rejectsDuplicateTag /\ HasTag(releases, info.tag_name)

RemoteCreateRelease(info) ==
    IF RemoteRefusesRelease(info) THEN releases ELSE <<info>> \o releases

(***************************************************************************)
(* GitHubAPI.create_pre_release                                            *)
(***************************************************************************)
\* release_branch = self.get_branch(name)
Pre_GetBranch(p) ==
    /\ proc[p].pc = "pre_get_branch"
    /\ \E r \in Answers(RemoteBranch(proc[p].name)) :
          proc' = [proc EXCEPT ![p] =
             IF r.status # 200
             THEN Exited(p, HttpError(r), PyNone, Logged(p, "get_branch", proc[p].name, NoName, r))
             ELSE [@ EXCEPT !.pc = "pre_get_release", !.sha = r.sha,
                            !.log = Logged(p, "get_branch", proc[p].name, NoName, r)]]
    /\ UNCHANGED <<branches, releases, env>>

\* create_pre_release going on whatever the lookup answers.
Pre_GetRelease_Unchecked(p) ==
    /\ proc[p].pc = "pre_get_release"
    /\ \E r \in Answers(RemoteRelease(proc[p].arg)) :
          proc' = [proc EXCEPT ![p] =
             [@ EXCEPT !.pc = "pre_post",
                       !.log = Logged(p, "get_release", proc[p].arg, NoName, r)]]
    /\ UNCHANGED <<branches, releases, env>>

\* try: self.get_release(release_name) / except HTTPError: pass / else: raise
Pre_GetRelease(p) ==
    /\ proc[p].pc = "pre_get_release"
    /\ \E r \in Answers(RemoteRelease(proc[p].arg)) :
          proc' = [proc EXCEPT ![p] =
             IF r.status = 200
             THEN Exited(p, "AlreadyExists", PyNone, Logged(p, "get_release", proc[p].arg, NoName, r))
             ELSE [@ EXCEPT !.pc = "pre_post",
                            !.log = Logged(p, "get_release", proc[p].arg, NoName, r)]]
    /\ UNCHANGED <<branches, releases, env>>

\* release_info of create_pre_release with the prerelease flag of create_release.
PreReleaseInfo_NotPre(release_name, sha) ==
    [tag_name |-> release_name, target_commitish |-> sha,
     name |-> S_release_ \o release_name, body |-> <<>>,
     draft |-> FALSE, prerelease |-> FALSE]

\* release_info of create_pre_release
PreReleaseInfo(release_name, sha) ==
    [tag_name |-> release_name, target_commitish |-> sha,
     name |-> S_release_ \o release_name, body |-> <<>>,
     draft |-> FALSE, prerelease |-> TRUE]

\* resp = self.post('releases', json=release_info); resp.raise_for_status()
Pre_Post(p) ==
    /\ proc[p].pc = "pre_post"
    /\ releases' = RemoteCreateRelease(PreReleaseInfo(proc[p].arg, proc[p].sha))
    /\ proc' = [proc EXCEPT ![p] =
          IF RemoteRefusesRelease(PreReleaseInfo(proc[p].arg, proc[p].sha))
          THEN Exited(p, "HTTP422", PyNone,
                      Logged(p, "post_release", proc[p].arg, NoName, Unprocessable))
          ELSE Exited(p, "ok", proc[p].arg,
                      Logged(p, "post_release", proc[p].arg, NoName, Created))]
    /\ UNCHANGED <<branches, env>>

(***************************************************************************)
(* GitHubAPI.create_release                                                *)
(***************************************************************************)
\* The merge gate of create_release letting 'ahead' through.
Rel_Unmerged_DivergedOnly == {"diverged"}

\* if merge_status in ['diverged', 'ahead']
Rel_Unmerged == {"diverged", "ahead"}

\* create_release comparing the release branch with develop.
Rel_Compare_Develop(p) ==
    /\ proc[p].pc = "rel_compare"
    /\ \E r \in Answers(RemoteCompare(S_develop,
                           S_release_ \o extract_major_version(proc[p].arg))) :
          proc' = [proc EXCEPT ![p] =
             LET lg == Logged(p, "compare", S_develop,
                              S_release_ \o extract_major_version(proc[p].arg), r)
             IN  IF r.status # 200 THEN Exited(p, HttpError(r), PyNone, lg)
                 ELSE IF r.cmp \in Rel_Unmerged THEN Exited(p, "MergeRequired", PyNone, lg)
                 ELSE [@ EXCEPT !.pc = "rel_get_release", !.log = lg]]
    /\ UNCHANGED <<branches, releases, env>>

\* merge_status = self.compare('master', 'release-<major>').get('status')
Rel_Compare(p) ==
    /\ proc[p].pc = "rel_compare"
    /\ \E r \in Answers(RemoteCompare(S_master,
                           S_release_ \o extract_major_version(proc[p].arg))) :
          proc' = [proc EXCEPT ![p] =
             LET lg == Logged(p, "compare", S_master,
                              S_release_ \o extract_major_version(proc[p].arg), r)
             IN  IF r.status # 200 THEN Exited(p, HttpError(r), PyNone, lg)
                 ELSE IF r.cmp \in Rel_Unmerged THEN Exited(p, "MergeRequired", PyNone, lg)
                 ELSE [@ EXCEPT !.pc = "rel_get_release", !.log = lg]]
    /\ UNCHANGED <<branches, releases, env>>

\* create_release going on whatever the lookup answers.
Rel_GetRelease_Unchecked(p) ==
    /\ proc[p].pc = "rel_get_release"
    /\ \E r \in Answers(RemoteRelease(proc[p].arg)) :
          proc' = [proc EXCEPT ![p] =
             [@ EXCEPT !.pc = "rel_get_master",
                       !.log = Logged(p, "get_release", proc[p].arg, NoName, r)]]
    /\ UNCHANGED <<branches, releases, env>>

\* try: self.get_release(release_name) / except HTTPError: pass / else: raise
Rel_GetRelease(p) ==
    /\ proc[p].pc = "rel_get_release"
    /\ \E r \in Answers(RemoteRelease(proc[p].arg)) :
          proc' = [proc EXCEPT ![p] =
             IF r.status = 200
             THEN Exited(p, "AlreadyExists", PyNone, Logged(p, "get_release", proc[p].arg, NoName, r))
             ELSE [@ EXCEPT !.pc = "rel_get_master",
                            !.log = Logged(p, "get_release", proc[p].arg, NoName, r)]]
    /\ UNCHANGED <<branches, releases, env>>

\* master = self.get_branch('master')
Rel_GetMaster(p) ==
    /\ proc[p].pc = "rel_get_master"
    /\ \E r \in Answers(RemoteBranch(S_master)) :
          proc' = [proc EXCEPT ![p] =
             IF r.status # 200
             THEN Exited(p, HttpError(r), PyNone, Logged(p, "get_branch", S_master, NoName, r))
             ELSE [@ EXCEPT !.pc = "rel_post", !.sha = r.sha,
                            !.log = Logged(p, "get_branch", S_master, NoName, r)]]
    /\ UNCHANGED <<branches, releases, env>>

\* release_info of create_release
ReleaseInfo(release_name, sha) ==
    [tag_name |-> release_name, target_commitish |-> sha,
     name |-> S_release_ \o release_name, body |-> <<>>,
     draft |-> FALSE, prerelease |-> FALSE]

\* create_release returning the response without raise_for_status.
Rel_Post_NoRaise(p) ==
    /\ proc[p].pc = "rel_post"
    /\ releases' = RemoteCreateRelease(ReleaseInfo(proc[p].arg, proc[p].sha))
    /\ proc' = [proc EXCEPT ![p] =
          Exited(p, "ok", proc[p].arg,
                 Logged(p, "post_release", proc[p].arg, NoName, Created))]
    /\ UNCHANGED <<branches, env>>

\* resp = self.post('releases', json=release_info); resp.raise_for_status()
Rel_Post(p) ==
    /\ proc[p].pc = "rel_post"
    /\ releases' = RemoteCreateRelease(ReleaseInfo(proc[p].arg, proc[p].sha))
    /\ proc' = [proc EXCEPT ![p] =
          IF RemoteRefusesRelease(ReleaseInfo(proc[p].arg, proc[p].sha))
          THEN Exited(p, "HTTP422", PyNone,
                      Logged(p, "post_release", proc[p].arg, NoName, Unprocessable))
          ELSE Exited(p, "ok", proc[p].arg,
                      Logged(p, "post_release", proc[p].arg, NoName, Created))]
    /\ UNCHANGED <<branches, env>>

(***************************************************************************)
(* GitHubAPI.release_branch_name, called directly or by check_merge_status *)
(***************************************************************************)
\* release_branch_name returns `v` to its caller.
Returned(p, v, lg) ==
    IF proc[p].op = "release_branch_name" THEN Exited(p, "ok", v, lg)
    ELSE [proc[p] EXCEPT !.pc = "cms_latest_release", !.release_base_branch = v, !.log = lg]

\* prod.get('tag_name', '') where prod is the answer, or {} when it failed
TagOrEmpty(r) == IF r.status = 200 THEN r.tag_name ELSE <<>>

\* release_branch_name looking at the prereleases whatever production is.
Rbn_LatestRelease_NoShortcut(p) ==
    /\ proc[p].pc = "rbn_latest_release"
    /\ \E r \in Answers(RemoteLatestRelease) :
          proc' = [proc EXCEPT ![p] =
             [@ EXCEPT !.pc = "rbn_latest_prerelease",
                       !.log = Logged(p, "latest_release", NoName, NoName, r)]]
    /\ UNCHANGED <<branches, releases, env>>

\* try: prod = self.latest_release() / except: prod = {}; the first comparison
Rbn_LatestRelease(p) ==
    /\ proc[p].pc = "rbn_latest_release"
    /\ \E r \in Answers(RemoteLatestRelease) :
          proc' = [proc EXCEPT ![p] =
             LET lg == Logged(p, "latest_release", NoName, NoName, r)
             IN  IF extract_major_version(TagOrEmpty(r)) = extract_major_version(proc[p].arg)
                 THEN Returned(p, S_master, lg)
                 ELSE [@ EXCEPT !.pc = "rbn_latest_prerelease", !.log = lg]]
    /\ UNCHANGED <<branches, releases, env>>

\* GET releases, filtered to the prereleases; prereleases[0] or a failure
RemoteLatestPrerelease ==
    IF Len(SelectPre(releases, TRUE)) = 0 THEN NotFound
    ELSE [status |-> 200, sha |-> SelectPre(releases, TRUE)[1].target_commitish,
          tag_name |-> SelectPre(releases, TRUE)[1].tag_name, cmp |-> "none"]

\* try: prod_next = self.latest_prerelease() / except: prod_next = {}; the
\* second comparison; falling off the end returns None
Rbn_LatestPrerelease(p) ==
    /\ proc[p].pc = "rbn_latest_prerelease"
    /\ \E r \in Answers(RemoteLatestPrerelease) :
          proc' = [proc EXCEPT ![p] =
             LET lg == Logged(p, "releases", NoName, NoName, r)
             IN  IF extract_major_version(TagOrEmpty(r)) = extract_major_version(proc[p].arg)
                 THEN Returned(p, S_release_ \o extract_major_version(proc[p].arg), lg)
                 ELSE Returned(p, PyNone, lg)]
    /\ UNCHANGED <<branches, releases, env>>

(***************************************************************************)
(* GitHubAPI.check_merge_status, after release_branch_name returned        *)
(***************************************************************************)
\* check_merge_status taking a failed latest_release for an empty answer.
Cms_LatestRelease_Tolerant(p) ==
    /\ proc[p].pc = "cms_latest_release"
    /\ \E r \in Answers(RemoteLatestRelease) :
          proc' = [proc EXCEPT ![p] =
             [@ EXCEPT !.pc = "cms_compare", !.prod_tag = TagOrEmpty(r),
                       !.log = Logged(p, "latest_release", NoName, NoName, r)]]
    /\ UNCHANGED <<branches, releases, env>>

\* prod = self.latest_release(); prod_tag = prod.get('tag_name')
Cms_LatestRelease(p) ==
    /\ proc[p].pc = "cms_latest_release"
    /\ \E r \in Answers(RemoteLatestRelease) :
          proc' = [proc EXCEPT ![p] =
             LET lg == Logged(p, "latest_release", NoName, NoName, r)
             IN  IF r.status # 200 THEN Exited(p, HttpError(r), PyNone, lg)
                 ELSE [@ EXCEPT !.pc = "cms_compare", !.prod_tag = r.tag_name, !.log = lg]]
    /\ UNCHANGED <<branches, releases, env>>

\* The merge gate of check_merge_status letting 'ahead' through.
Cms_Unmerged_DivergedOnly == {"diverged"}

\* if status in ['diverged', 'ahead']
Cms_Unmerged == {"diverged", "ahead"}

\* c = self.compare(prod_tag, release_base_branch); the status test
Cms_Compare(p) ==
    /\ proc[p].pc = "cms_compare"
    /\ \E r \in Answers(RemoteCompare(proc[p].prod_tag, Format(proc[p].release_base_branch))) :
          proc' = [proc EXCEPT ![p] =
             LET lg == Logged(p, "compare", proc[p].prod_tag, proc[p].release_base_branch, r)
             IN  IF r.status # 200 THEN Exited(p, HttpError(r), PyNone, lg)
                 ELSE IF r.cmp \in Cms_Unmerged THEN Exited(p, "MergeRequired", PyNone, lg)
                 ELSE Exited(p, "ok", PyTrue, lg)]
    /\ UNCHANGED <<branches, releases, env>>

(***************************************************************************)
(* The rest of the world: commits land on master and on develop.           *)
(***************************************************************************)
Push(b, c) ==
    /\ b \in DOMAIN branches
    /\ c \notin branches[b]
    /\ branches' = [branches EXCEPT ![b] = @ \cup {c}]
    /\ UNCHANGED <<releases, env, proc>>

(***************************************************************************)
(* The specification: one invocation at a time against a remote that       *)
(* answers every lookup truthfully.  The repository starts with master,    *)
(* with or without develop, and no release.                                *)
(***************************************************************************)
Init ==
    /\ \E names \in {{S_master, S_develop}, {S_master}} : branches = [n \in names |-> {}]
    /\ releases = <<>>
    /\ env = [flaky |-> FALSE, rejectsDuplicateTag |-> FALSE]
    /\ proc = [p \in Procs |-> Idle]

Next ==
    \/ \E p \in Procs, v \in VersionArgs : StartRelease(p, v)
    \/ \E p \in Procs, t \in TicketArgs : StartHotfix(p, t)
    \/ \E p \in Procs, v \in VersionArgs : Qa(p, v)
    \/ \E p \in Procs, v \in VersionArgs : Release(p, v)
    \/ \E p \in Procs, v \in MethodArgs : MethodCheckMergeStatus(p, v)
    \/ \E p \in Procs, v \in MethodArgs : MethodReleaseBranchName(p, v)
    \/ \E p \in Procs : CreateBranch_GetBranch(p)
    \/ \E p \in Procs : CreateBranch_GetBase(p)
    \/ \E p \in Procs : CreateBranch_Post(p)
    \/ \E p \in Procs : Pre_GetBranch(p)
    \/ \E p \in Procs : Pre_GetRelease(p)
    \/ \E p \in Procs : Pre_Post(p)
    \/ \E p \in Procs : Rel_Compare(p)
    \/ \E p \in Procs : Rel_GetRelease(p)
    \/ \E p \in Procs : Rel_GetMaster(p)
    \/ \E p \in Procs : Rel_Post(p)
    \/ \E p \in Procs : Rbn_LatestRelease(p)
    \/ \E p \in Procs : Rbn_LatestPrerelease(p)
    \/ \E p \in Procs : Cms_LatestRelease(p)
    \/ \E p \in Procs : Cms_Compare(p)
    \/ Push(S_master, "m")
    \/ Push(S_develop, "d")

Spec == Init /\ [][Next]_vars

(***************************************************************************)
(* Branch creation against a remote that may answer any lookup with a      *)
(* server error (requests raises HTTPError for every 4xx and 5xx status).   *)
(***************************************************************************)
InitFlaky ==
    /\ \E names \in {{S_master, S_develop}, {S_master}} : branches = [n \in names |-> {}]
    /\ releases = <<>>
    /\ env = [flaky |-> TRUE, rejectsDuplicateTag |-> FALSE]
    /\ proc = [p \in Procs |-> Idle]

\* The two commands that create a branch, and pushes to the long-lived branches.
NextFlaky ==
    \/ \E p \in Procs, v \in VersionArgs : StartRelease(p, v)
    \/ \E p \in Procs, t \in TicketArgs : StartHotfix(p, t)
    \/ \E p \in Procs : CreateBranch_GetBranch(p)
    \/ \E p \in Procs : CreateBranch_GetBase(p)
    \/ \E p \in Procs : CreateBranch_Post(p)
    \/ Push(S_master, "m")
    \/ Push(S_develop, "d")

SpecFlaky == InitFlaky /\ [][NextFlaky]_vars

(***************************************************************************)
(* Two runs of the script at the same time, each of qa or release, on a    *)
(* repository whose release branch was started, against a remote that      *)
(* refuses a release whose tag exists.                                      *)
(***************************************************************************)
ConcProcs == {1, 2}

ConcVersions == {V_17_11_01_00, V_17_11_01_00_05}

ConcQa(p, qa_ver) == proc[p].pc = "idle" /\ Qa(p, qa_ver)

ConcRelease(p, release_ver) == proc[p].pc = "idle" /\ Release(p, release_ver)

InitConc ==
    /\ branches = [n \in {S_master, S_develop, S_release_ \o V_17_11_01_00} |-> {}]
    /\ releases = <<>>
    /\ env = [flaky |-> FALSE, rejectsDuplicateTag |-> TRUE]
    /\ proc = [p \in ConcProcs |-> Idle]

NextConc ==
    \/ \E p \in ConcProcs, v \in ConcVersions : ConcQa(p, v)
    \/ \E p \in ConcProcs, v \in ConcVersions : ConcRelease(p, v)
    \/ \E p \in ConcProcs : Pre_GetBranch(p)
    \/ \E p \in ConcProcs : Pre_GetRelease(p)
    \/ \E p \in ConcProcs : Pre_Post(p)
    \/ \E p \in ConcProcs : Rel_Compare(p)
    \/ \E p \in ConcProcs : Rel_GetRelease(p)
    \/ \E p \in ConcProcs : Rel_GetMaster(p)
    \/ \E p \in ConcProcs : Rel_Post(p)
    \/ Push(S_master, "m")

SpecConc == InitConc /\ [][NextConc]_vars

(***************************************************************************)
(* The version helpers on their own: extract_major_version of both modules *)
(* applied to any string of digits and dots, and applied again to what it  *)
(* returned.                                                               *)
(***************************************************************************)
VersionChars == {"0", "1", "."}

VersionInputs == UNION {[1..n -> VersionChars] : n \in 0..MaxInputLen}

Applied(p, f, value) ==
    [Idle EXCEPT !.op = f, !.arg = proc[p].arg, !.pc = "done",
                 !.result = "ok", !.ret = value]

Reapplied(p, value) ==
    [proc[p] EXCEPT !.arg = proc[p].ret, !.pc = "again", !.ret = value]

Apply_extract_major_version(p) ==
    /\ proc[p].pc = "idle"
    /\ proc' = [proc EXCEPT ![p] =
          Applied(p, "extract_major_version", extract_major_version(proc[p].arg))]
    /\ UNCHANGED <<branches, releases, env>>

Reapply_extract_major_version(p) ==
    /\ proc[p].pc = "done"
    /\ proc[p].op = "extract_major_version"
    /\ proc' = [proc EXCEPT ![p] = Reapplied(p, extract_major_version(proc[p].ret))]
    /\ UNCHANGED <<branches, releases, env>>

Apply_formatting_extract_major_version(p) ==
    /\ proc[p].pc = "idle"
    /\ proc' = [proc EXCEPT ![p] =
          Applied(p, "formatting.extract_major_version",
                  formatting_extract_major_version(proc[p].arg))]
    /\ UNCHANGED <<branches, releases, env>>

Reapply_formatting_extract_major_version(p) ==
    /\ proc[p].pc = "done"
    /\ proc[p].op = "formatting.extract_major_version"
    /\ proc' = [proc EXCEPT ![p] =
          Reapplied(p, formatting_extract_major_version(proc[p].ret))]
    /\ UNCHANGED <<branches, releases, env>>

InitPure ==
    /\ branches = [n \in {S_master, S_develop} |-> {}]
    /\ releases = <<>>
    /\ env = [flaky |-> FALSE, rejectsDuplicateTag |-> FALSE]
    /\ \E v \in VersionInputs : proc = [p \in Procs |-> [Idle EXCEPT !.arg = v]]

NextPure ==
    \/ \E p \in Procs : Apply_extract_major_version(p)
    \/ \E p \in Procs : Reapply_extract_major_version(p)
    \/ \E p \in Procs : Apply_formatting_extract_major_version(p)
    \/ \E p \in Procs : Reapply_formatting_extract_major_version(p)

SpecPure == InitPure /\ [][NextPure]_vars

(***************************************************************************)
(* Properties.                                                             *)
(***************************************************************************)
\* p takes a step of its invocation (not the start of a new one).
Steps(p, o) == proc[p].op = o /\ proc[p].pc \notin {"idle", "done"} /\ proc'[p] # proc[p]

Posts(lg) == {k \in 1..Len(lg) : lg[k].call \in {"post_ref", "post_release"}}

ReleaseBranchOf(version) == S_release_ \o extract_major_version(version)

\* C1: after any sequence of qa and release invocations run one after the
\* other, no two releases of the remote carry the same tag name.
C1_TagUniqueness ==
    \A i, j \in 1..Len(releases) : releases[i].tag_name = releases[j].tag_name => i = j

\* A release exists and an invocation for its tag was turned down.
C1_Witness ==
    \E p \in Procs :
       /\ proc[p].op \in {"qa", "release"}
       /\ proc[p].result = "AlreadyExists"
       /\ HasTag(releases, proc[p].arg)

\* C2: when create_release or create_pre_release looks the release up and a
\* release with that tag exists, the invocation ends with AlreadyExists, has
\* issued no POST, and the remote branches and releases are as they were.
C2_ExistingReleaseStops ==
    [][\A p \in Procs :
          (/\ \/ Steps(p, "release") /\ proc[p].pc = "rel_get_release"
              \/ Steps(p, "qa") /\ proc[p].pc = "pre_get_release"
           /\ HasTag(releases, proc[p].arg))
          => /\ proc'[p].pc = "done"
             /\ proc'[p].result = "AlreadyExists"
             /\ Posts(proc'[p].log) = {}
             /\ releases' = releases
             /\ branches' = branches]_vars

\* `release` was turned down for a version that is released.
C2_Witness ==
    \E p \in Procs :
       /\ proc[p].op = "release"
       /\ proc[p].result = "AlreadyExists"
       /\ HasTag(releases, proc[p].arg)
       /\ proc[p].log[Len(proc[p].log)].call = "get_release"

\* C3: start release <version> looks up "release-" + major; if that branch
\* exists it ends with AlreadyExists and creates nothing; otherwise, develop
\* existing, it creates exactly that branch at the SHA develop had when it was
\* looked up, and changes no other branch.
C3_CreateReleaseBranch ==
    [][\A p \in Procs : Steps(p, "start_release") =>
          /\ proc[p].name = S_release_ \o JoinDot(Take(SplitDot(proc[p].arg), 4))
          /\ proc[p].pc = "cb_get_branch" =>
                /\ branches' = branches
                /\ IF proc[p].name \in DOMAIN branches
                   THEN proc'[p].pc = "done" /\ proc'[p].result = "AlreadyExists"
                   ELSE proc'[p].pc = "cb_get_base"
          /\ proc[p].pc = "cb_get_base" =>
                /\ branches' = branches
                /\ S_develop \in DOMAIN branches =>
                      /\ proc'[p].pc = "cb_post"
                      /\ proc'[p].log[2].call = "get_branch"
                      /\ proc'[p].log[2].a = S_develop
                      /\ proc'[p].log[2].resp.sha = branches[S_develop]
          /\ proc[p].pc = "cb_post" =>
                IF proc[p].name \in DOMAIN branches THEN branches' = branches
                ELSE /\ proc'[p].result = "ok"
                     /\ DOMAIN branches' = DOMAIN branches \cup {proc[p].name}
                     /\ branches'[proc[p].name] = proc[p].log[2].resp.sha
                     /\ proc[p].log[2].a = S_develop
                     /\ \A n \in DOMAIN branches : branches'[n] = branches[n]]_vars

\* A release branch was created from develop while develop was ahead of
\* master.
C3_Witness ==
    \E p \in Procs :
       /\ proc[p].op = "start_release"
       /\ proc[p].result = "ok"
       /\ proc[p].ret \in DOMAIN branches
       /\ branches[proc[p].ret] # branches[S_master]
       /\ branches[proc[p].ret] = {"d"}

\* C4: release <version> creates a release only after compare(master,
\* "release-" + major) answered behind or identical; on diverged or ahead it
\* ends with MergeRequired and creates nothing; the release it creates has
\* tag = version, target = the SHA master had when looked up, prerelease and
\* draft false.
C4_CreateRelease ==
    [][\A p \in Procs : Steps(p, "release") =>
          /\ proc[p].pc # "rel_post" => releases' = releases
          /\ proc[p].pc = "rel_compare" =>
                LET c == RemoteCompare(S_master, ReleaseBranchOf(proc[p].arg))
                IN  /\ c.cmp \in {"diverged", "ahead"} =>
                          proc'[p].pc = "done" /\ proc'[p].result = "MergeRequired"
                    /\ proc'[p].pc # "done" => c.cmp \in {"behind", "identical"}
          /\ proc[p].pc = "rel_get_master" /\ proc'[p].pc = "rel_post" =>
                /\ proc'[p].log[3].call = "get_branch"
                /\ proc'[p].log[3].a = S_master
                /\ proc'[p].log[3].resp.sha = branches[S_master]
          /\ proc[p].pc = "rel_post" /\ releases' # releases =>
                /\ Tail(releases') = releases
                /\ releases'[1].tag_name = proc[p].arg
                /\ releases'[1].target_commitish = proc[p].log[3].resp.sha
                /\ proc[p].log[3].a = S_master
                /\ releases'[1].prerelease = FALSE
                /\ releases'[1].draft = FALSE
                /\ proc[p].log[1].call = "compare"
                /\ proc[p].log[1].a = S_master
                /\ proc[p].log[1].b = ReleaseBranchOf(proc[p].arg)
                /\ proc[p].log[1].resp.cmp \in {"behind", "identical"}]_vars

\* A production release was created with the release branch behind master.
C4_Witness ==
    \E p \in Procs :
       /\ proc[p].op = "release"
       /\ proc[p].result = "ok"
       /\ proc[p].log[1].resp.cmp = "behind"
       /\ releases[1].tag_name = proc[p].arg
       /\ releases[1].prerelease = FALSE

\* C5: check_merge_status, with a base branch resolved and a production
\* release found, compares the latest production tag with the base; it ends
\* with MergeRequired exactly when the status is ahead or diverged and returns
\* True when it is behind or identical; none of its steps changes the remote.
C5_CheckMergeStatus ==
    [][\A p \in Procs : Steps(p, "check_merge_status") =>
          /\ branches' = branches
          /\ releases' = releases
          /\ proc[p].pc = "cms_latest_release" /\ proc'[p].pc = "cms_compare" =>
                proc'[p].prod_tag = SelectPre(releases, FALSE)[1].tag_name
          /\ (/\ proc[p].pc = "cms_compare"
              /\ proc[p].release_base_branch # PyNone
              /\ RemoteCompare(proc[p].prod_tag, proc[p].release_base_branch).status = 200) =>
                LET c == RemoteCompare(proc[p].prod_tag, proc[p].release_base_branch)
                IN  /\ proc'[p].pc = "done"
                    /\ proc'[p].result = "MergeRequired" <=> c.cmp \in {"ahead", "diverged"}
                    /\ c.cmp \in {"behind", "identical"} =>
                          proc'[p].result = "ok" /\ proc'[p].ret = PyTrue]_vars

\* check_merge_status ended with MergeRequired on a release branch that is
\* ahead of the latest production tag.
C5_Witness ==
    \E p \in Procs :
       /\ proc[p].op = "check_merge_status"
       /\ proc[p].result = "MergeRequired"
       /\ Len(proc[p].log) = 4
       /\ proc[p].log[4].b = ReleaseBranchOf(proc[p].arg)
       /\ proc[p].log[4].resp.cmp = "ahead"

\* release_branch_name has returned to the command line.
RbnDone(p) == proc[p].op = "release_branch_name" /\ proc[p].pc = "done"

\* C6 (as stated): with "17.11.01.00" the latest production release,
\* release_branch_name("17.11.01.05") returns "master".
C6_RevisionResolvesToMaster ==
    \A p \in Procs :
       (/\ RbnDone(p)
        /\ proc[p].arg = V_17_11_01_05
        /\ proc[p].log[1].resp.status = 200
        /\ proc[p].log[1].resp.tag_name = V_17_11_01_00)
       => proc[p].ret = S_master

\* C6 (amended): with "17.11.01.00" the latest production release,
\* release_branch_name("17.11.01.00.05") returns "master" after the one
\* lookup of the latest release, whatever prereleases exist, and
\* release_branch_name("17.11.01.05") does not return "master": it returns the
\* release branch of "17.11.01.05" or nothing.
C6_FifthComponentResolvesToMaster ==
    \A p \in Procs :
       (/\ RbnDone(p)
        /\ proc[p].log[1].resp.status = 200
        /\ proc[p].log[1].resp.tag_name = V_17_11_01_00)
       => /\ proc[p].arg = V_17_11_01_00_05 =>
                proc[p].ret = S_master /\ Len(proc[p].log) = 1
          /\ proc[p].arg = V_17_11_01_05 =>
                proc[p].ret \in {PyNone, S_release_ \o V_17_11_01_05}

\* "17.11.01.00.05" resolved to master with "17.11.01.00" in production and a
\* prerelease on the remote.
C6_Witness ==
    \E p \in Procs :
       /\ RbnDone(p)
       /\ proc[p].arg = V_17_11_01_00_05
       /\ proc[p].log[1].resp.tag_name = V_17_11_01_00
       /\ proc[p].ret = S_master
       /\ Len(SelectPre(releases, TRUE)) > 0

\* C7: when neither the latest production release nor the latest prerelease
\* has the major version asked for, release_branch_name fails explicitly
\* (BaseBranchUnresolved) instead of returning no branch name.
C7_UnresolvedBaseFails ==
    \A p \in Procs :
       (/\ RbnDone(p)
        /\ Len(proc[p].log) = 2
        /\ extract_major_version(TagOrEmpty(proc[p].log[1].resp))
              # extract_major_version(proc[p].arg)
        /\ extract_major_version(TagOrEmpty(proc[p].log[2].resp))
              # extract_major_version(proc[p].arg))
       => proc[p].result = "BaseBranchUnresolved" /\ proc[p].ret # PyNone

\* C8: start hotfix <ticket>, for a valid ticket name, creates the branch
\* "hotfix-" + ticket at the SHA of master.
C8_HotfixBranchNamedAfterTicket ==
    \A p \in Procs :
       (proc[p].op = "start_hotfix" /\ proc[p].pc = "done" /\ proc[p].result = "ok")
       => /\ proc[p].ret = S_hotfix_ \o proc[p].arg
          /\ S_hotfix_ \o proc[p].arg \in DOMAIN branches
          /\ branches[S_hotfix_ \o proc[p].arg] = proc[p].log[2].resp.sha
          /\ proc[p].log[2].a = S_master

\* C9: qa <version> first looks up "release-" + major; if that branch is
\* missing it ends there with the lookup's 404, having looked up and created
\* no release; the release it creates has tag = version, target = the SHA of
\* the release branch as read by that lookup, prerelease true, draft false.
C9_CreatePreRelease ==
    [][\A p \in Procs : Steps(p, "qa") =>
          /\ proc[p].pc # "pre_post" => releases' = releases
          /\ proc[p].pc = "pre_get_branch" =>
                /\ proc'[p].log[1].call = "get_branch"
                /\ proc'[p].log[1].a = S_release_ \o JoinDot(Take(SplitDot(proc[p].arg), 4))
                /\ IF proc'[p].log[1].a \in DOMAIN branches
                   THEN /\ proc'[p].pc = "pre_get_release"
                        /\ proc'[p].log[1].resp.sha = branches[proc'[p].log[1].a]
                   ELSE /\ proc'[p].pc = "done"
                        /\ proc'[p].result = "HTTP404"
                        /\ Len(proc'[p].log) = 1
          /\ proc[p].pc = "pre_post" /\ releases' # releases =>
                /\ Tail(releases') = releases
                /\ releases'[1].tag_name = proc[p].arg
                /\ releases'[1].target_commitish = proc[p].log[1].resp.sha
                /\ proc[p].log[1].call = "get_branch"
                /\ releases'[1].prerelease = TRUE
                /\ releases'[1].draft = FALSE]_vars

\* A prerelease was created on a release branch that is ahead of master.
C9_Witness ==
    \E p \in Procs :
       /\ proc[p].op = "qa"
       /\ proc[p].result = "ok"
       /\ releases[1].tag_name = proc[p].arg
       /\ releases[1].prerelease = TRUE
       /\ releases[1].target_commitish = {"d"}

\* C10: start release, qa and release accept a version exactly when it
\* matches the legacy pattern or the semver grammar, and fail with
\* InvalidFormat otherwise.
C10_WorkflowAcceptsLegacyOrSemver ==
    \A p \in Procs :
       (proc[p].op \in {"start_release", "qa", "release"} /\ proc[p].pc # "idle")
       => (proc[p].result = "InvalidFormat"
              <=> ~(LegacyMatch(proc[p].arg) \/ SemverMatch(proc[p].arg)))

\* The four workflow commands, and the pattern each argument has to match.
WorkflowOps == {"start_release", "start_hotfix", "qa", "release"}

ArgMatches(o, a) == IF o = "start_hotfix" THEN TicketMatch(a) ELSE LegacyMatch(a)

\* C11: a workflow command whose version or ticket argument does not match
\* its pattern ends with InvalidFormat at once: it issues no remote call and
\* the remote branches and releases stay as they are.
C11_ValidationFirst ==
    [][\A p \in Procs :
          (/\ proc'[p] # proc[p]
           /\ proc'[p].op \in WorkflowOps
           /\ ~ArgMatches(proc'[p].op, proc'[p].arg))
          => /\ proc'[p].pc = "done"
             /\ proc'[p].result = "InvalidFormat"
             /\ proc'[p].log = <<>>
             /\ branches' = branches
             /\ releases' = releases]_vars

\* qa was turned down for "1.0.0" on a remote that has a release.
C11_Witness ==
    \E p \in Procs :
       /\ proc[p].op = "qa"
       /\ proc[p].arg = V_1_0_0
       /\ proc[p].result = "InvalidFormat"
       /\ Len(releases) > 0

\* The first four dot-separated components of s, read off the positions of
\* its dots: all of s when it has fewer than four dots, and what stands
\* before the fourth dot otherwise.
DotPositions(s) == {i \in 1..Len(s) : s[i] = "."}

FourthDot(s) ==
    CHOOSE i \in DotPositions(s) : Cardinality({j \in DotPositions(s) : j < i}) = 3

FirstFourComponents(s) ==
    IF Cardinality(DotPositions(s)) < 4 THEN s ELSE SubSeq(s, 1, FourthDot(s) - 1)

ExtractOps == {"extract_major_version", "formatting.extract_major_version"}

\* C12: extract_major_version (of either module) returns the first four
\* dot-separated components joined by ".", so a string of at most four
\* components comes back unchanged and a fifth component is dropped, and
\* applying it to its own result returns that result unchanged.
C12_ExtractMajorVersion ==
    \A p \in Procs :
       proc[p].op \in ExtractOps =>
          /\ proc[p].pc = "done" => proc[p].ret = FirstFourComponents(proc[p].arg)
          /\ proc[p].pc = "again" => proc[p].ret = proc[p].arg

\* A string of five one-digit components was cut down to its first four.
C12_Witness ==
    \E p \in Procs :
       /\ proc[p].op = "extract_major_version"
       /\ proc[p].pc = "done"
       /\ Cardinality(DotPositions(proc[p].arg)) = 4
       /\ Len(proc[p].arg) = 9
       /\ Len(proc[p].ret) = 7

\* C13: check_merge_status stops when release_branch_name resolved no base
\* branch: no invocation of it has asked for the latest release a second
\* time, or for a comparison, with nothing as the head branch.
C13_UnresolvedBaseStops ==
    \A p \in Procs :
       proc[p].op = "check_merge_status" =>
          /\ proc[p].release_base_branch = PyNone => proc[p].pc = "done"
          /\ \A k \in 1..Len(proc[p].log) :
                proc[p].log[k].call = "compare" => proc[p].log[k].b # PyNone

\* C14: only a 404 answer to the lookup of the branch to create lets
\* create_branch go on: after any other error answer the invocation has
\* ended with that error, having issued this one call.
C14_OnlyNotFoundContinues ==
    \A p \in Procs :
       (/\ proc[p].op \in {"start_release", "start_hotfix"}
        /\ proc[p].log # <<>>
        /\ proc[p].log[1].resp.status \notin {200, 404})
       => /\ proc[p].pc = "done"
          /\ proc[p].result = HttpError(proc[p].log[1].resp)
          /\ Len(proc[p].log) = 1

\* The invocation has issued its POST releases.
Posted(p) == Posts(proc[p].log) # {}

\* C15: two concurrent invocations of qa or release for one version, against
\* a remote that refuses an existing tag: no tag is ever on two releases, at
\* most one of the two succeeds, and when both went past the existence check
\* and issued their POST, the other one ended with the remote's error.
C15_RaceHasOneWinner ==
    /\ \A i, j \in 1..Len(releases) :
          releases[i].tag_name = releases[j].tag_name => i = j
    /\ \A p, q \in ConcProcs :
          (p # q /\ proc[p].arg = proc[q].arg /\ proc[p].result = "ok")
          => /\ proc[q].result # "ok"
             /\ (proc[q].pc = "done" /\ Posted(q)) => proc[q].result = "HTTP422"

\* Both invocations went past the check before either created the release:
\* both issued the POST, one was answered 201 and the other 422.
C15_Witness ==
    \E p, q \in ConcProcs :
       /\ p # q
       /\ proc[p].arg = proc[q].arg
       /\ proc[p].op = "release" /\ proc[q].op = "qa"
       /\ proc[p].pc = "done" /\ proc[q].pc = "done"
       /\ Posted(p) /\ Posted(q)
       /\ proc[p].result = "ok"
       /\ proc[q].result = "HTTP422"

\* The major version of the first release of a list, empty for an empty list.
MajorOfFirst(rs) == IF rs = <<>> THEN <<>> ELSE FirstFourComponents(rs[1].tag_name)

\* C16: release_branch_name returns "master" as soon as the latest
\* production release has the requested major version, without asking for
\* the prereleases; only otherwise it asks for them and returns
\* "release-<major>" exactly when the first prerelease of the list has the
\* requested major version.  A missing latest release or prerelease counts
\* as an empty major version and does not end the invocation with an error.
C16_ProductionMatchFirst ==
    [][\A p \in Procs :
          Steps(p, "release_branch_name") =>
             LET major == FirstFourComponents(proc[p].arg)
                 prodMajor == MajorOfFirst(SelectPre(releases, FALSE))
                 preMajor == MajorOfFirst(SelectPre(releases, TRUE))
                 after == proc'[p]
             IN  IF proc[p].pc = "rbn_latest_release"
                 THEN /\ Len(after.log) = 1
                      /\ after.log[1].call = "latest_release"
                      /\ IF prodMajor = major
                         THEN /\ after.pc = "done"
                              /\ after.result = "ok"
                              /\ after.ret = S_master
                         ELSE after.pc = "rbn_latest_prerelease"
                 ELSE /\ Len(after.log) = 2
                      /\ after.log[2].call = "releases"
                      /\ after.pc = "done"
                      /\ after.result = "ok"
                      /\ (after.ret = S_release_ \o major) <=> (preMajor = major)]_vars

\* "master" was returned after the one latest_release call, while the first
\* prerelease has the requested major version as well.
C16_Witness ==
    \E p \in Procs :
       /\ RbnDone(p)
       /\ proc[p].ret = S_master
       /\ Len(proc[p].log) = 1
       /\ SelectPre(releases, TRUE) # <<>>
       /\ MajorOfFirst(SelectPre(releases, TRUE)) = FirstFourComponents(proc[p].arg)

\* The calls of one kind in a call log.
CallsOf(lg, c) == {k \in 1..Len(lg) : lg[k].call = c}

\* C17: while the remote has no production release, no step of
\* check_merge_status succeeds or asks for a comparison, whatever the version
\* and whatever base branch was resolved, and its own latest_release lookup
\* ends the invocation with the remote's 404.
C17_NoProductionReleaseFails ==
    [][\A p \in Procs :
          (Steps(p, "check_merge_status") /\ SelectPre(releases, FALSE) = <<>>)
          => /\ proc'[p].pc # "cms_compare"
             /\ proc'[p].result # "ok"
             /\ CallsOf(proc'[p].log, "compare") = {}
             /\ proc[p].pc = "cms_latest_release"
                => (proc'[p].pc = "done" /\ proc'[p].result = "HTTP404")]_vars

\* check_merge_status failed for want of a production release although the
\* base branch had been resolved through a matching prerelease.
C17_Witness ==
    \E p \in Procs :
       /\ proc[p].op = "check_merge_status"
       /\ proc[p].pc = "done"
       /\ proc[p].result = "HTTP404"
       /\ SelectPre(releases, FALSE) = <<>>
       /\ Len(proc[p].log) = 3
       /\ proc[p].log[2].call = "releases"
       /\ proc[p].log[2].resp.status = 200
       /\ FirstFourComponents(proc[p].log[2].resp.tag_name) = FirstFourComponents(proc[p].arg)

\* What create_release(v) comes to on the remote as it stands: the release
\* branch of v's major version holds nothing that master lacks, and no
\* release is tagged v.
CreateReleasePasses(v) ==
    LET rb == S_release_ \o FirstFourComponents(v)
    IN  /\ S_master \in DOMAIN branches
        /\ rb \in DOMAIN branches
        /\ branches[rb] \subseteq branches[S_master]
        /\ ~HasTag(releases, v)

\* What check_merge_status(v) comes to on the remote as it stands: there is
\* a production release, a base branch is resolved from the latest release
\* and the latest prerelease, and it holds nothing that the production tag
\* lacks.
CheckMergeStatusPasses(v) ==
    LET prod == SelectPre(releases, FALSE)
        major == FirstFourComponents(v)
        base == IF MajorOfFirst(prod) = major THEN S_master
                ELSE IF MajorOfFirst(SelectPre(releases, TRUE)) = major
                     THEN S_release_ \o major
                     ELSE S_None
    IN  /\ prod # <<>>
        /\ base \in DOMAIN branches
        /\ branches[base] \subseteq prod[1].target_commitish

\* C18: create_release has a merge gate of its own: its first call compares
\* "master" with "release-<major>", it never asks for the latest release or
\* for the prereleases, and it succeeds exactly when that comparison and its
\* own existence check allow it, while check_merge_status succeeds exactly
\* when the latest production tag contains the base branch it resolved.
C18_IndependentGates ==
    [][\A p \in Procs :
          /\ Steps(p, "release") =>
                /\ proc'[p].log[1].call = "compare"
                /\ proc'[p].log[1].a = S_master
                /\ proc'[p].log[1].b = S_release_ \o FirstFourComponents(proc[p].arg)
                /\ CallsOf(proc'[p].log, "latest_release") = {}
                /\ CallsOf(proc'[p].log, "releases") = {}
                /\ proc'[p].pc = "done" =>
                      (proc'[p].result = "ok" <=> CreateReleasePasses(proc[p].arg))
          /\ (Steps(p, "check_merge_status") /\ proc'[p].pc = "done") =>
                (proc'[p].result = "ok" <=> CheckMergeStatusPasses(proc[p].arg))]_vars

\* check_merge_status has just failed for a version that create_release
\* would release, on a remote where another version passes
\* check_merge_status and would be turned down by create_release.
C18_Witness ==
    \E p \in Procs :
       /\ proc[p].op = "check_merge_status"
       /\ proc[p].pc = "done"
       /\ proc[p].result # "ok"
       /\ ~CheckMergeStatusPasses(proc[p].arg)
       /\ CreateReleasePasses(proc[p].arg)
       /\ \E w \in MethodArgs : CheckMergeStatusPasses(w) /\ ~CreateReleasePasses(w)

\* The remote calls of each workflow command, in the order of its code.
ExpectedCalls(o) ==
    IF o \in {"start_release", "start_hotfix"} THEN <<"get_branch", "get_branch", "post_ref">>
    ELSE IF o = "qa" THEN <<"get_branch", "get_release", "post_release">>
    ELSE <<"compare", "get_release", "get_branch", "post_release">>

\* The lookups of a command all came out the way its POST needs: what is to
\* be created was not found, what it is created from was found, and the
\* release branch is merged.
ChecksPassed(o, lg) ==
    IF o \in {"start_release", "start_hotfix"}
    THEN lg[1].resp.status = 404 /\ lg[2].resp.status = 200
    ELSE IF o = "qa"
    THEN lg[1].resp.status = 200 /\ lg[2].resp.status = 404
    ELSE /\ lg[1].resp.status = 200
         /\ lg[1].resp.cmp \in {"behind", "identical"}
         /\ lg[2].resp.status = 404
         /\ lg[3].resp.status = 200

\* C19: every step of a workflow command issues exactly one remote call, the
\* next one of the command's fixed sequence, so that no call is repeated and
\* the command has ended after at most its three or four calls; the POST is
\* the last call of the sequence, is issued once, after every lookup let the
\* command go on, and ends the command.  create_release compares first: for
\* a version that is unmerged and already released it ends with MergeRequired.
C19_FixedCallOrder ==
    [][\A p \in Procs :
          (proc[p].op \in WorkflowOps /\ Steps(p, proc[p].op)) =>
             LET o == proc[p].op
                 before == proc[p].log
                 after == proc'[p].log
                 n == Len(ExpectedCalls(o))
                 rb == S_release_ \o FirstFourComponents(proc[p].arg)
             IN  /\ Len(after) = Len(before) + 1
                 /\ SubSeq(after, 1, Len(before)) = before
                 /\ Len(after) <= n
                 /\ after[Len(after)].call = ExpectedCalls(o)[Len(after)]
                 /\ Posts(before) = {}
                 /\ Posts(after) # {} =>
                       /\ Posts(after) = {n}
                       /\ ChecksPassed(o, before)
                       /\ proc'[p].pc = "done"
                 /\ Posts(after) = {} => (branches' = branches /\ releases' = releases)
                 /\ (/\ o = "release"
                     /\ before = <<>>
                     /\ rb \in DOMAIN branches
                     /\ ~(branches[rb] \subseteq branches[S_master])
                     /\ HasTag(releases, proc[p].arg))
                    => (proc'[p].pc = "done" /\ proc'[p].result = "MergeRequired")]_vars

\* release ended with MergeRequired after its one comparison, for a version
\* that has a release already.
C19_Witness ==
    \E p \in Procs :
       /\ proc[p].op = "release"
       /\ proc[p].pc = "done"
       /\ proc[p].result = "MergeRequired"
       /\ Len(proc[p].log) = 1
       /\ HasTag(releases, proc[p].arg)

====
